---- MODULE Spec2Model ----
(***************************************************************************)
(* A model of the Story Reader application logic (src/app.js).             *)
(*                                                                         *)
(* A JavaScript string is modelled as a sequence of characters, a          *)
(* character as a one-element TLA+ string.  The non-ASCII characters the   *)
(* source names in its regular expressions are written with ASCII names:   *)
(*   "FWC"                     the full-width colon  (U+FF1A)              *)
(*   "NI" "HON" "GO" "YAKU"    the four characters of the translation      *)
(*                             keyword of line 110                         *)
(*   "JUU" "YOU" "TAN" "GO"    the four characters of the vocabulary       *)
(*                             keyword of line 116 (its last character is  *)
(*                             the third one of the translation keyword)   *)
(*   "kTA" "kI" "kTO" "kRU"    the four katakana of the label of line 142  *)
(***************************************************************************)
EXTENDS Integers, Sequences, FiniteSets, TLC

VARIABLES
    pc,               \* position in parseTemplate: "idle", "scan", "done"
    text,             \* the argument of parseTemplate
    lines,            \* const lines = text.split('\n')
    i,                \* number of lines scanned so far (the loop index, 0-based)
    title,            \* let title
    englishBody,      \* let englishBody
    vocabItems,       \* let vocabItems
    translationText,  \* let translationText
    currentSection,   \* let currentSection ("null" models null)
    result            \* the value parseTemplate returned

vars == <<pc, text, lines, i, title, englishBody, vocabItems, translationText,
          currentSection, result>>

-----------------------------------------------------------------------------
(* Characters and character classes of the regular expressions.            *)

NL == "\n"

\* \s, and the characters String.prototype.trim removes (the same set in JS)
WhiteSpace == {" ", "\t", "\n", "\r"}

\* \d
Digits == {"0", "1", "2", "3", "4", "5", "6", "7", "8", "9"}

\* [:\s<full-width colon>]
LabelSep == {":", "FWC"} \cup WhiteSpace

\* `.' matches every character but a line terminator
IsDot(c) == c \notin {"\n", "\r"}

\* the literal keywords of lines 110, 116 and 142, and the label of line 93
KwTranslation == <<"NI", "HON", "GO", "YAKU">>
KwVocab       == <<"JUU", "YOU", "TAN", "GO">>
KwTaitoru     == <<"kTA", "kI", "kTO", "kRU">>
KwTitle       == <<"t", "i", "t", "l", "e">>

\* the case folding of the /i flag, on the letters of the label
Lower(c) ==
    CASE c = "T" -> "t"
      [] c = "I" -> "i"
      [] c = "L" -> "l"
      [] c = "E" -> "e"
      [] OTHER   -> c

-----------------------------------------------------------------------------
(* String primitives.                                                      *)

\* s.substring(a - 1, b): the characters a..b of s (1-based, inclusive)
Sub(s, a, b) == SubSeq(s, a, b)

\* the least q >= p with q > Len(s) or s[q] \notin S: where a greedy run of
\* characters of S that starts at p ends
RECURSIVE SkipWhile(_, _, _)
SkipWhile(s, p, S) ==
    IF p > Len(s) \/ s[p] \notin S THEN p ELSE SkipWhile(s, p + 1, S)

\* the greatest q <= p with q < 1 or s[q] \notin S
RECURSIVE SkipBack(_, _, _)
SkipBack(s, p, S) ==
    IF p < 1 \/ s[p] \notin S THEN p ELSE SkipBack(s, p - 1, S)

\* where a greedy run of `.' that starts at p ends
RECURSIVE DotEnd(_, _)
DotEnd(s, p) ==
    IF p > Len(s) \/ ~IsDot(s[p]) THEN p ELSE DotEnd(s, p + 1)

\* String.prototype.trim
Trim(s) ==
    LET a == SkipWhile(s, 1, WhiteSpace)
        b == SkipBack(s, Len(s), WhiteSpace)
    IN  IF a > b THEN <<>> ELSE Sub(s, a, b)

\* does w occur in s at position p
OccursAt(s, w, p) ==
    /\ p >= 1
    /\ p + Len(w) - 1 <= Len(s)
    /\ \A k \in 1..Len(w) : s[p + k - 1] = w[k]

\* does w occur in s at position p, ignoring case
OccursAtCI(s, w, p) ==
    /\ p >= 1
    /\ p + Len(w) - 1 <= Len(s)
    /\ \A k \in 1..Len(w) : Lower(s[p + k - 1]) = w[k]

\* text.split('\n'): the pieces between the line terminators; never empty
RECURSIVE SplitFrom(_, _, _)
SplitFrom(s, p, cur) ==
    IF p > Len(s) THEN <<cur>>
    ELSE IF s[p] = NL THEN <<cur>> \o SplitFrom(s, p + 1, <<>>)
    ELSE SplitFrom(s, p + 1, Append(cur, s[p]))

SplitLines(s) == SplitFrom(s, 1, <<>>)

\* parseInt of a run of decimal digits
DigitValue(c) ==
    CASE c = "0" -> 0 [] c = "1" -> 1 [] c = "2" -> 2 [] c = "3" -> 3
      [] c = "4" -> 4 [] c = "5" -> 5 [] c = "6" -> 6 [] c = "7" -> 7
      [] c = "8" -> 8 [] c = "9" -> 9

RECURSIVE ParseIntFrom(_, _, _)
ParseIntFrom(s, p, acc) ==
    IF p > Len(s) THEN acc
    ELSE ParseIntFrom(s, p + 1, acc * 10 + DigitValue(s[p]))

ParseInt(s) == ParseIntFrom(s, 1, 0)

-----------------------------------------------------------------------------
(* The regular expressions of parseTemplate.  A match is a record with     *)
(* ok = TRUE and the captured groups; NoMatch models null.                 *)

NoMatch == [ok |-> FALSE]

Max(S) == CHOOSE x \in S : \A y \in S : y <= x
Min(S) == CHOOSE x \in S : \A y \in S : x <= y

\* Where the group of  S*(.+)  (least = 0) or  S+(.+)  (least = 1) starts when
\* the expression is matched at p; 0 when it does not match.  The run of S is
\* greedy and gives characters back, one at a time, until `.' can match one.
GroupStart(s, p, S, least) ==
    LET q == SkipWhile(s, p, S)
        C == {g \in (p + least)..q : g <= Len(s) /\ IsDot(s[g])}
    IN  IF C = {} THEN 0 ELSE Max(C)

\* the group (.+) that starts at g and runs to the end of the line
GroupFrom(s, g) == Sub(s, g, DotEnd(s, g) - 1)

\* /^#{2,3}\s*(\d+)\.\s*(.+)/ with the marker taken as k characters
HeaderAt(t, k) ==
    LET p1 == SkipWhile(t, k + 1, WhiteSpace)
        p2 == SkipWhile(t, p1, Digits)
        g  == GroupStart(t, p2 + 1, WhiteSpace, 0)
    IN  IF /\ Len(t) >= k
           /\ \A j \in 1..k : t[j] = "#"
           /\ p2 > p1
           /\ p2 <= Len(t)
           /\ t[p2] = "."
           /\ g # 0
        THEN [ok |-> TRUE, num |-> Sub(t, p1, p2 - 1), content |-> GroupFrom(t, g)]
        ELSE NoMatch

\* trimmed.match(/^#{2,3}\s*(\d+)\.\s*(.+)/i): the marker is tried with three
\* characters first, then with two
HeaderMatch(t) ==
    IF HeaderAt(t, 3).ok THEN HeaderAt(t, 3) ELSE HeaderAt(t, 2)

\* sectionContent.match(/Title[:\s<FWC>]+(.+)/i): the leftmost occurrence of the
\* label that a separator and a group follow, anywhere in the content
TitleMatchAt(c, p) ==
    /\ OccursAtCI(c, KwTitle, p)
    /\ GroupStart(c, p + Len(KwTitle), LabelSep, 1) # 0

TitleMatch(c) ==
    LET P == {p \in 1..Len(c) : TitleMatchAt(c, p)}
    IN  IF P = {} THEN NoMatch
        ELSE [ok |-> TRUE,
              group |-> GroupFrom(c, GroupStart(c, Min(P) + Len(KwTitle), LabelSep, 1))]

\* does  \s*.*  match exactly the characters a..b of t
SpanMatches(t, a, b) ==
    \A j \in SkipWhile(t, a, WhiteSpace)..b : IsDot(t[j])

\* /^#{2,3}\s*.*KW/ for a keyword KW: a marker of three or of two characters,
\* then anything, then the keyword
KeywordHeader(t, kw) ==
    \E k \in {3, 2} :
        /\ Len(t) >= k
        /\ \A j \in 1..k : t[j] = "#"
        /\ \E p \in (k + 1)..Len(t) : OccursAt(t, kw, p) /\ SpanMatches(t, k + 1, p - 1)

\* trimmed.match(/^#{2,3}\s*.*<translation keyword>/)
TranslationHeader(t) == KeywordHeader(t, KwTranslation)

\* trimmed.match(/^#{2,3}\s*.*<vocabulary keyword>/)
VocabHeader(t) == KeywordHeader(t, KwVocab)

\* VocabMatch with the bullet optional: /^[\*\-]?\s*\*\*(.+?)\*\*[:\s<FWC>]+(.+)/
\* (matched without the bullet when the line does not match with it)
VocabMatchOptionalBullet(t) ==
    LET b  == IF Len(t) >= 1 /\ t[1] \in {"*", "-"}
                  /\ OccursAt(t, <<"*", "*">>, SkipWhile(t, 2, WhiteSpace))
              THEN 2 ELSE 1
        p1 == SkipWhile(t, b, WhiteSpace)
        w  == p1 + 2
        E  == {e \in (w + 1)..Len(t) :
                  /\ \A j \in w..(e - 1) : IsDot(t[j])
                  /\ OccursAt(t, <<"*", "*">>, e)
                  /\ GroupStart(t, e + 2, LabelSep, 1) # 0}
    IN  IF /\ OccursAt(t, <<"*", "*">>, p1)
           /\ E # {}
        THEN [ok |-> TRUE,
              word |-> Sub(t, w, Min(E) - 1),
              meaning |-> GroupFrom(t, GroupStart(t, Min(E) + 2, LabelSep, 1))]
        ELSE NoMatch

\* trimmed.match(/^[\*\-]\s*\*\*(.+?)\*\*[:\s<FWC>]+(.+)/): the word is the
\* shortest run of `.' after which the closing ** , a separator and a meaning
\* follow
VocabMatch(t) ==
    LET p1 == SkipWhile(t, 2, WhiteSpace)
        w  == p1 + 2
        E  == {e \in (w + 1)..Len(t) :
                  /\ \A j \in w..(e - 1) : IsDot(t[j])
                  /\ OccursAt(t, <<"*", "*">>, e)
                  /\ GroupStart(t, e + 2, LabelSep, 1) # 0}
    IN  IF /\ Len(t) >= 1
           /\ t[1] \in {"*", "-"}
           /\ OccursAt(t, <<"*", "*">>, p1)
           /\ E # {}
        THEN [ok |-> TRUE,
              word |-> Sub(t, w, Min(E) - 1),
              meaning |-> GroupFrom(t, GroupStart(t, Min(E) + 2, LabelSep, 1))]
        ELSE NoMatch

\* trimmed.match(/^#{2,3}\s/)
SubHeaderMatch(t) ==
    \E k \in {3, 2} :
        /\ Len(t) >= k + 1
        /\ \A j \in 1..k : t[j] = "#"
        /\ t[k + 1] \in WhiteSpace

\* s.replace(/^#{2,3}\s*/, ''): the marker (three characters when there are
\* three) and the white space after it are removed
StripMarker(t) ==
    LET h == SkipWhile(t, 1, {"#"}) - 1
        k == IF h >= 3 THEN 3 ELSE h
    IN  IF k < 2 THEN t
        ELSE Sub(t, SkipWhile(t, k + 1, WhiteSpace), Len(t))

\* s.replace(/<katakana label>[<FWC>:]\s*/, ''): the first occurrence of the
\* label with its colon and the white space after it is removed
StripTaitoru(s) ==
    LET P == {p \in 1..Len(s) :
                 /\ OccursAt(s, KwTaitoru, p)
                 /\ p + Len(KwTaitoru) <= Len(s)
                 /\ s[p + Len(KwTaitoru)] \in {"FWC", ":"}}
    IN  IF P = {} THEN s
        ELSE Sub(s, 1, Min(P) - 1)
               \o Sub(s, SkipWhile(s, Min(P) + Len(KwTaitoru) + 1, WhiteSpace), Len(s))

\* the subTitle of line 142
SubTitle(t) == StripTaitoru(StripMarker(t))

\* the text line 144 appends: `**${subTitle}**\n\n`
BoldParagraph(s) == <<"*", "*">> \o s \o <<"*", "*", NL, NL>>

-----------------------------------------------------------------------------
(* parseTemplate: one iteration of the loop over the lines.                *)

\* the values currentSection takes
Sections == {"null", "title", "english", "vocab", "translation"}

\* SectionOfNumber with the branches of 2 and 3 both selecting the body
SectionOfNumberBodyTwice(n) ==
    CASE n = 1 -> "title"
      [] n = 2 -> "english"
      [] n = 3 -> "english"
      [] n = 4 -> "translation"
      [] OTHER -> "null"

\* lines 90-105: the section a heading number selects; "null" for a number
\* that has no branch
SectionOfNumber(n) ==
    CASE n = 1 -> "title"
      [] n = 2 -> "english"
      [] n = 3 -> "vocab"
      [] n = 4 -> "translation"
      [] OTHER -> "null"

\* lines 93-94: the title a section-1 heading gives
ExtractTitle(sectionContent) ==
    LET titleMatch == TitleMatch(sectionContent)
    IN  IF titleMatch.ok THEN Trim(titleMatch.group) ELSE sectionContent

\* lines 124-126: a line scanned in the title section
CollectTitle(st, trimmed) ==
    IF trimmed # <<>> /\ st.title = <<>>
    THEN [st EXCEPT !.title = trimmed]
    ELSE st

\* line 128: a line scanned in the body section
CollectEnglish(st, line) ==
    [st EXCEPT !.englishBody = @ \o line \o <<NL>>]

\* lines 131-137: a line scanned in the vocabulary section
CollectVocab(st, trimmed) ==
    LET vocabMatch == VocabMatch(trimmed)
    IN  IF vocabMatch.ok
        THEN [st EXCEPT !.vocabItems =
                 Append(@, [word    |-> Trim(vocabMatch.word),
                            meaning |-> Trim(vocabMatch.meaning)])]
        ELSE st

\* CollectTranslation without the continue of line 146: the sub-heading is
\* emitted in bold and then appended as it is
CollectTranslationNoContinue(st, line, trimmed) ==
    LET emitted == IF SubHeaderMatch(trimmed) /\ SubTitle(trimmed) # <<>>
                   THEN st.translationText \o BoldParagraph(SubTitle(trimmed))
                   ELSE st.translationText
    IN  [st EXCEPT !.translationText = emitted \o line \o <<NL>>]

\* lines 140-148: a line scanned in the translation section
CollectTranslation(st, line, trimmed) ==
    IF SubHeaderMatch(trimmed)
    THEN IF SubTitle(trimmed) # <<>>
         THEN [st EXCEPT !.translationText = @ \o BoldParagraph(SubTitle(trimmed))]
         ELSE st
    ELSE [st EXCEPT !.translationText = @ \o line \o <<NL>>]

\* Collect with a line scanned before any section taken as body text
CollectUnsetIsBody(st, line, trimmed) ==
    CASE st.currentSection = "title"       -> CollectTitle(st, trimmed)
      [] st.currentSection = "english"     -> CollectEnglish(st, line)
      [] st.currentSection = "vocab"       -> CollectVocab(st, trimmed)
      [] st.currentSection = "translation" -> CollectTranslation(st, line, trimmed)
      [] OTHER                             -> CollectEnglish(st, line)

\* lines 122-149: the content of a line that is no section boundary
Collect(st, line, trimmed) ==
    CASE st.currentSection = "title"       -> CollectTitle(st, trimmed)
      [] st.currentSection = "english"     -> CollectEnglish(st, line)
      [] st.currentSection = "vocab"       -> CollectVocab(st, trimmed)
      [] st.currentSection = "translation" -> CollectTranslation(st, line, trimmed)
      [] OTHER                             -> st

\* lines 86-107: a numbered heading whose number has a branch; each branch
\* ends the iteration (continue)
NumberedHeading(st, sectionNum, sectionContent) ==
    IF sectionNum = 1
    THEN [st EXCEPT !.title = ExtractTitle(sectionContent),
                    !.currentSection = SectionOfNumber(sectionNum)]
    ELSE [st EXCEPT !.currentSection = SectionOfNumber(sectionNum)]

\* ScanStep with the two keyword rules tested before the numbered heading
ScanStepKeywordsFirst(st, line) ==
    LET trimmed     == Trim(line)
        headerMatch == HeaderMatch(trimmed)
    IN  IF TranslationHeader(trimmed)
        THEN [st EXCEPT !.currentSection = "translation"]
        ELSE IF VocabHeader(trimmed)
        THEN [st EXCEPT !.currentSection = "vocab"]
        ELSE IF headerMatch.ok /\ SectionOfNumber(ParseInt(headerMatch.num)) # "null"
        THEN NumberedHeading(st, ParseInt(headerMatch.num), Trim(headerMatch.content))
        ELSE Collect(st, line, trimmed)

\* lines 80-149: the body of the loop, from the locals st and the line to the
\* locals after the iteration
ScanStep(st, line) ==
    LET trimmed     == Trim(line)
        headerMatch == HeaderMatch(trimmed)
    IN  IF headerMatch.ok /\ SectionOfNumber(ParseInt(headerMatch.num)) # "null"
        THEN NumberedHeading(st, ParseInt(headerMatch.num), Trim(headerMatch.content))
        ELSE IF TranslationHeader(trimmed)
        THEN [st EXCEPT !.currentSection = "translation"]
        ELSE IF VocabHeader(trimmed)
        THEN [st EXCEPT !.currentSection = "vocab"]
        ELSE Collect(st, line, trimmed)

\* lines 152-162: the value parseTemplate returns
Null == [kind |-> "null"]

\* ReturnValue with a validation that also asks for a vocabulary entry
ReturnValueNeedsVocab(st) ==
    IF st.title = <<>> \/ Trim(st.englishBody) = <<>> \/ st.vocabItems = <<>>
    THEN Null
    ELSE [kind        |-> "record",
          title       |-> st.title,
          english     |-> Trim(st.englishBody),
          vocab       |-> st.vocabItems,
          translation |-> Trim(st.translationText)]

ReturnValue(st) ==
    IF st.title = <<>> \/ Trim(st.englishBody) = <<>>
    THEN Null
    ELSE [kind        |-> "record",
          title       |-> st.title,
          english     |-> Trim(st.englishBody),
          vocab       |-> st.vocabItems,
          translation |-> Trim(st.translationText)]

-----------------------------------------------------------------------------
(* The input lines the model draws its texts from.                         *)

\* "### 1. Title: Ab": a section-1 heading with the label and an inline title
LineTitleLabel ==
    <<"#", "#", "#", " ", "1", ".", " ", "T", "i", "t", "l", "e", ":", " ", "A", "b">>

\* "## 1. A Title: B": a section-1 heading whose content has the word Title later in it
LineTitleLater ==
    <<"#", "#", " ", "1", ".", " ", "A", " ", "T", "i", "t", "l", "e", ":", " ", "B">>

\* "### 1. Title": a section-1 heading with the label alone
LineTitleOnly ==
    <<"#", "#", "#", " ", "1", ".", " ", "T", "i", "t", "l", "e">>

\* "### 1. My": a section-1 heading without the label
LineTitlePlain ==
    <<"#", "#", "#", " ", "1", ".", " ", "M", "y">>

\* "### 2. E": the heading of section 2
LineBodyHead ==
    <<"#", "#", "#", " ", "2", ".", " ", "E">>

\* "### 3. <JUU><YOU><TAN><GO>": the heading of section 3, as the format comment of line 66 writes it
LineVocabHead ==
    <<"#", "#", "#", " ", "3", ".", " ", "JUU", "YOU", "TAN", "GO">>

\* "### 4. <NI><HON><GO><YAKU>": the heading of section 4, as the format comment of line 68 writes it
LineTransHead ==
    <<"#", "#", "#", " ", "4", ".", " ", "NI", "HON", "GO", "YAKU">>

\* "### 3. <NI><HON><GO><YAKU>": a heading numbered 3 whose content is the translation keyword
LineThreeTrans ==
    <<"#", "#", "#", " ", "3", ".", " ", "NI", "HON", "GO", "YAKU">>

\* "### 5. N": a heading with a section number the parser does not know
LineFive ==
    <<"#", "#", "#", " ", "5", ".", " ", "N">>

\* "## <JUU><YOU><TAN><GO><NI><HON><GO><YAKU>": an unnumbered heading with both keywords
LineBothKw ==
    <<"#", "#", " ", "JUU", "YOU", "TAN", "GO", "NI", "HON", "GO", "YAKU">>

\* "## <JUU><YOU><TAN><GO>": an unnumbered heading with the vocabulary keyword
LineVocabKw ==
    <<"#", "#", " ", "JUU", "YOU", "TAN", "GO">>

\* "* **w**: m": a vocabulary line with a * bullet
LineEntryStar ==
    <<"*", " ", "*", "*", "w", "*", "*", ":", " ", "m">>

\* "- **v** <FWC> n": a vocabulary line with a - bullet and a full-width colon
LineEntryDash ==
    <<"-", " ", "*", "*", "v", "*", "*", " ", "FWC", " ", "n">>

\* "**w**: m": a vocabulary line without a bullet
LineEntryBare ==
    <<"*", "*", "w", "*", "*", ":", " ", "m">>

\* "## <kTA><kI><kTO><kRU><FWC> x": a sub-heading with the katakana label
LineSubHead ==
    <<"#", "#", " ", "kTA", "kI", "kTO", "kRU", "FWC", " ", "x">>

\* "### <kTA><kI><kTO><kRU>:": a sub-heading that is the katakana label alone
LineSubEmpty ==
    <<"#", "#", "#", " ", "kTA", "kI", "kTO", "kRU", ":">>

\* "###x": a heading marker with no white space after it
LineMarkerOnly ==
    <<"#", "#", "#", "x">>

\* " a": a line of plain text with leading white space
LineText ==
    <<" ", "a">>

\* "b ": a line of plain text with trailing white space
LineTextB ==
    <<"b", " ">>

\* "": a blank line
LineBlank ==
    <<>>

-----------------------------------------------------------------------------
(* The texts parseTemplate is called with.                                 *)

\* the greatest number of lines of a free text
MaxLines == 3

\* the greatest number of lines of one section of a template
MaxSec == 2

\* the lines of a free text
LineSet ==
    {LineTitleLabel, LineTitleOnly, LineBodyHead, LineThreeTrans,
     LineTransHead, LineFive, LineBothKw, LineVocabKw,
     LineEntryDash, LineEntryBare, LineSubHead, LineMarkerOnly, LineText}

\* the lines of the sections of a template
TitleHeadings == {LineTitleLabel, LineTitleLater, LineTitlePlain}
BodyLines     == {LineText, LineBlank}
VocabLines    == {LineEntryStar, LineEntryBare}
TransLines    == {LineTextB, LineSubEmpty}

\* the sequences over S with lo..hi elements
SeqsOf(S, lo, hi) == UNION {[1..n -> S] : n \in lo..hi}

\* every sequence of one to MaxLines lines
FreeTexts == SeqsOf(LineSet, 1, MaxLines)

\* the four headings in order, each section with up to MaxSec lines
TemplateTexts ==
    {<<h>> \o <<LineBodyHead>> \o b \o <<LineVocabHead>> \o v \o <<LineTransHead>> \o t :
        h \in TitleHeadings,
        b \in SeqsOf(BodyLines, 1, MaxSec),
        v \in SeqsOf(VocabLines, 0, MaxSec),
        t \in SeqsOf(TransLines, 0, MaxSec)}

\* Array.prototype.join('\n'): the text whose lines are ls
RECURSIVE JoinLines(_)
JoinLines(ls) ==
    IF Len(ls) = 1 THEN ls[1]
    ELSE ls[1] \o <<NL>> \o JoinLines(Tail(ls))

InputTexts == {JoinLines(ls) : ls \in FreeTexts \cup TemplateTexts}

-----------------------------------------------------------------------------
(* The state of the rest of the program.  parseTemplate, markdownToHtml    *)
(* and the event handlers are three machines over disjoint variables; each *)
(* specification runs one of them and holds the others at rest.            *)

VARIABLES
    mdPc,                 \* position in markdownToHtml: "idle", "start", "italic",
                          \* "split", "breaks", "done"
    mdText,               \* the argument of markdownToHtml
    html                  \* let html, and at "done" the value returned

mdVars == <<mdPc, mdText, html>>

VARIABLES
    stories,              \* let stories
    stored,               \* the item of localStorage under 'storyReader_stories'
    currentStoryId,       \* let currentStoryId   (NoId models null)
    currentChapterIndex,  \* let currentChapterIndex
    addingToStoryId,      \* let addingToStoryId  (NoId models null)
    activeView,           \* the .view element that carries the class 'active'
    openSheets,           \* the .bottom-sheet elements that carry the class 'open'
    overlay,              \* the classes of #sheet-overlay among 'visible', 'hidden'
    hideTimers,           \* the pending setTimeout callbacks of closeAllSheets
    reads,                \* the pending FileReader reads: the contents of their files
    clock                 \* Date.now(): the number of records stamped so far

appVars == <<stories, stored, currentStoryId, currentChapterIndex, addingToStoryId,
             activeView, openSheets, overlay, hideTimers, reads, clock>>

\* null, for a story id
NoId == 0

\* null, for localStorage.getItem of a key that was never set
NoItem == [json |-> "null"]

\* parseTemplate is not running
ParserIdle ==
    /\ pc = "idle"
    /\ text = <<>>
    /\ lines = <<>>
    /\ i = 0
    /\ title = <<>>
    /\ englishBody = <<>>
    /\ vocabItems = <<>>
    /\ translationText = <<>>
    /\ currentSection = "null"
    /\ result = [kind |-> "pending"]

\* markdownToHtml is not running
MdIdle ==
    /\ mdPc = "idle"
    /\ mdText = <<>>
    /\ html = <<>>

\* no page is loaded
AppIdle ==
    /\ stories = <<>>
    /\ stored = NoItem
    /\ currentStoryId = NoId
    /\ currentChapterIndex = 0
    /\ addingToStoryId = NoId
    /\ activeView = "none"
    /\ openSheets = {}
    /\ overlay = {}
    /\ hideTimers = 0
    /\ reads = <<>>
    /\ clock = 0

-----------------------------------------------------------------------------
(* parseTemplate as a state machine.                                       *)

\* the value of result before parseTemplate has returned
Pending == [kind |-> "pending"]

\* the locals of the loop as one record
Locals ==
    [title           |-> title,
     englishBody     |-> englishBody,
     vocabItems      |-> vocabItems,
     translationText |-> translationText,
     currentSection  |-> currentSection]

\* lines 72-77: the call, the split and the initial values of the locals
Init ==
    /\ text \in InputTexts
    /\ lines = SplitLines(text)
    /\ i = 0
    /\ title = <<>>
    /\ englishBody = <<>>
    /\ vocabItems = <<>>
    /\ translationText = <<>>
    /\ currentSection = "null"
    /\ result = Pending
    /\ pc = "scan"
    /\ MdIdle
    /\ AppIdle

\* lines 79-150: one iteration of the loop, on lines[i] (0-based)
ScanLine ==
    /\ pc = "scan"
    /\ i < Len(lines)
    /\ LET st == ScanStep(Locals, lines[i + 1])
       IN  /\ title' = st.title
           /\ englishBody' = st.englishBody
           /\ vocabItems' = st.vocabItems
           /\ translationText' = st.translationText
           /\ currentSection' = st.currentSection
    /\ i' = i + 1
    /\ UNCHANGED <<pc, text, lines, result>>
    /\ UNCHANGED <<mdVars, appVars>>

\* lines 152-162: the loop is over; validate and return
Validate ==
    /\ pc = "scan"
    /\ i = Len(lines)
    /\ result' = ReturnValue(Locals)
    /\ pc' = "done"
    /\ UNCHANGED <<text, lines, i, title, englishBody, vocabItems, translationText,
                   currentSection>>
    /\ UNCHANGED <<mdVars, appVars>>

Next == ScanLine \/ Validate

Spec == Init /\ [][Next]_vars

-----------------------------------------------------------------------------
(* Vocabulary of the properties: what the input is, read off the lines and  *)
(* not off the parser's variables.                                          *)

\* the line scanned last (lines[i - 1] in the source's 0-based indexing)
LastLine == lines[i]

\* a step of the loop
Scanned == i' = i + 1

\* the line a step of the loop scans, trimmed
ScannedTrimmed == Trim(lines[i + 1])

\* t is a heading line with the number n
IsHeadingNumbered(t, n) ==
    HeaderMatch(t).ok /\ ParseInt(HeaderMatch(t).num) = n

\* t is a heading line with a number
IsNumberedHeading(t) == HeaderMatch(t).ok

\* t is a heading line with a number other than 1, 2, 3 and 4
IsUnknownHeading(t) ==
    HeaderMatch(t).ok /\ ParseInt(HeaderMatch(t).num) \notin 1..4

\* t is a recognized section boundary: a heading numbered 1-4, or a heading
\* with one of the two keywords
IsBoundary(t) ==
    \/ \E n \in 1..4 : IsHeadingNumbered(t, n)
    \/ TranslationHeader(t)
    \/ VocabHeader(t)

\* some line of ls is a heading with the number n
HasHeadingNumbered(ls, n) ==
    \E k \in 1..Len(ls) : IsHeadingNumbered(Trim(ls[k]), n)

\* the lines a..b of ls, each followed by a line terminator
RECURSIVE LinesText(_, _, _)
LinesText(ls, a, b) ==
    IF a > b THEN <<>> ELSE ls[a] \o <<NL>> \o LinesText(ls, a + 1, b)

-----------------------------------------------------------------------------
(* C1 *)

\* C1: parseTemplate returns the rejection value or a complete record; it
\* rejects exactly when the title is empty or the trimmed body is empty; a
\* text with no matching vocabulary line gives vocab = [] and a text with no
\* translation section gives translation = "", and neither is a rejection.
C1_RejectsExactlyOnTitleOrBody ==
    pc = "done" =>
        /\ result.kind \in {"null", "record"}
        /\ (result = Null) <=> (title = <<>> \/ Trim(englishBody) = <<>>)
        /\ result.kind = "record" =>
              /\ DOMAIN result = {"kind", "title", "english", "vocab", "translation"}
              /\ result.title # <<>>
              /\ result.english # <<>>
              /\ (\A k \in 1..Len(lines) : ~VocabMatch(Trim(lines[k])).ok)
                    => result.vocab = <<>>
              /\ (~HasHeadingNumbered(lines, 4)
                    /\ \A k \in 1..Len(lines) : ~TranslationHeader(Trim(lines[k])))
                    => result.translation = <<>>

\* a template with a vocabulary section that has lines but no matching line,
\* and no translation text, was accepted with vocab = [] and translation = ""
C1_Witness ==
    /\ pc = "done"
    /\ result.kind = "record"
    /\ result.vocab = <<>>
    /\ result.translation = <<>>
    /\ \E k \in 1..(Len(lines) - 1) :
          lines[k] = LineVocabHead /\ lines[k + 1] = LineEntryBare

-----------------------------------------------------------------------------
(* C6 *)

\* C6: a text with no heading numbered 2 is rejected; the body changes only
\* in a step that starts in the body section, and the body section is entered
\* only by a heading numbered 2.
C6_NoSectionTwoRejected ==
    /\ [](pc = "done" /\ ~HasHeadingNumbered(lines, 2) => result = Null)
    /\ [][/\ englishBody' # englishBody => currentSection = "english"
          /\ (currentSection' = "english" /\ currentSection # "english")
                => IsHeadingNumbered(ScannedTrimmed, 2)]_vars

\* a text with a title, a vocabulary section and plain text, but no heading
\* numbered 2, was rejected
C6_Witness ==
    /\ pc = "done"
    /\ ~HasHeadingNumbered(lines, 2)
    /\ title # <<>>
    /\ \E k \in 1..Len(lines) : lines[k] = LineText
    /\ currentSection \in {"vocab", "translation"}
    /\ result = Null

-----------------------------------------------------------------------------
(* C5 *)

\* C5: the boundary rules are tested in the order numbered heading,
\* translation keyword, vocabulary keyword and the first that matches decides
\* the section: a heading numbered 1-4 selects the section of its number
\* whatever keyword its content has, a heading with no such number selects
\* translation when it has the translation keyword (also when it has both
\* keywords) and vocabulary when it has only the vocabulary keyword; a
\* boundary line adds nothing to body, vocabulary or translation.
C5_BoundaryRulesInOrder ==
    [][Scanned =>
        LET t        == ScannedTrimmed
            byNumber == \E n \in 1..4 : IsHeadingNumbered(t, n)
        IN  /\ \A n \in 1..4 :
                  IsHeadingNumbered(t, n) =>
                      currentSection' = <<"title", "english", "vocab", "translation">>[n]
            /\ (~byNumber /\ TranslationHeader(t)) => currentSection' = "translation"
            /\ (~byNumber /\ ~TranslationHeader(t) /\ VocabHeader(t))
                  => currentSection' = "vocab"
            /\ IsBoundary(t) =>
                  /\ englishBody' = englishBody
                  /\ vocabItems' = vocabItems
                  /\ translationText' = translationText]_vars

\* an unnumbered heading with both keywords was scanned, and then a heading
\* numbered 3 whose content is the translation keyword, which selected the
\* vocabulary section
C5_Witness ==
    /\ i >= 2
    /\ ~IsNumberedHeading(Trim(lines[i - 1]))
    /\ TranslationHeader(Trim(lines[i - 1]))
    /\ VocabHeader(Trim(lines[i - 1]))
    /\ IsHeadingNumbered(Trim(LastLine), 3)
    /\ TranslationHeader(Trim(LastLine))
    /\ currentSection = "vocab"

-----------------------------------------------------------------------------
(* C4 *)

\* C4 as stated: the cursor holds one of the five values, starts unset,
\* changes only when the scanned line is a recognized boundary, and a line
\* scanned while the cursor is unset contributes nothing to title, body,
\* vocabulary or translation.
C4_UnsetContributesNothing ==
    /\ [](currentSection \in Sections /\ (i = 0 => currentSection = "null"))
    /\ [][/\ currentSection' # currentSection
                => Scanned /\ IsBoundary(ScannedTrimmed)
          /\ (Scanned /\ currentSection = "null") =>
                /\ title' = title
                /\ englishBody' = englishBody
                /\ vocabItems' = vocabItems
                /\ translationText' = translationText]_vars

\* C4 as amended: as C4, but a line scanned while the cursor is unset may set
\* the title when it is a heading numbered 1; it contributes nothing else.
C4_UnsetContributesOnlyTitleHeading ==
    /\ [](currentSection \in Sections /\ (i = 0 => currentSection = "null"))
    /\ [][/\ currentSection' # currentSection
                => Scanned /\ IsBoundary(ScannedTrimmed)
          /\ (Scanned /\ currentSection = "null") =>
                /\ title' # title => IsHeadingNumbered(ScannedTrimmed, 1)
                /\ englishBody' = englishBody
                /\ vocabItems' = vocabItems
                /\ translationText' = translationText]_vars

\* a line of text was scanned while the cursor was unset and left every
\* field empty; the next line, a heading numbered 1, moved the cursor
C4_Witness ==
    /\ i = 2
    /\ lines[1] = LineText
    /\ IsHeadingNumbered(Trim(lines[2]), 1)
    /\ currentSection = "title"
    /\ title # <<>>
    /\ englishBody = <<>>
    /\ vocabItems = <<>>
    /\ translationText = <<>>

-----------------------------------------------------------------------------
(* C3 *)

\* C3: a heading whose number is not 1, 2, 3 or 4 leaves the cursor where it
\* is, in whatever section it occurs, and is not added to the body, the
\* vocabulary or the translation.
C3_UnknownHeadingIgnored ==
    [][(Scanned /\ IsUnknownHeading(ScannedTrimmed)) =>
          /\ currentSection' = currentSection
          /\ englishBody' = englishBody
          /\ vocabItems' = vocabItems
          /\ translationText' = translationText]_vars

-----------------------------------------------------------------------------
(* C7 *)

\* the content of a section-1 heading starts with the label: the word Title
\* (in any case) and a separator
C7_HasLabel(c) ==
    /\ OccursAtCI(c, KwTitle, 1)
    /\ Len(c) > Len(KwTitle)
    /\ c[Len(KwTitle) + 1] \in LabelSep

\* what follows the label and its separators
C7_AfterLabel(c) ==
    Trim(Sub(c, SkipWhile(c, Len(KwTitle) + 1, LabelSep), Len(c)))

\* C7: after a section-1 heading the title is what follows the label when
\* the content starts with the label, and the whole content, unchanged, when
\* it does not.
C7_TitleIsLabelledOrWhole ==
    (i >= 1 /\ IsHeadingNumbered(Trim(LastLine), 1)) =>
        LET c == Trim(HeaderMatch(Trim(LastLine)).content)
        IN  IF C7_HasLabel(c)
            THEN C7_AfterLabel(c) # <<>> => title = C7_AfterLabel(c)
            ELSE title = c

-----------------------------------------------------------------------------
(* C8 *)

\* t is a section-1 heading with the label alone: the title is not inline
C8_LabelOnlyHeading(t) ==
    /\ IsHeadingNumbered(t, 1)
    /\ LET c == Trim(HeaderMatch(t).content)
       IN  /\ OccursAtCI(c, KwTitle, 1)
           /\ \A p \in (Len(KwTitle) + 1)..Len(c) : c[p] \in LabelSep

\* C8: when the section-1 heading has no inline title, the first non-blank
\* line after it is the title, and later lines of the title section do not
\* replace it.
C8_TitleFromNextLine ==
    \A j \in 1..i : \A k \in (j + 1)..i :
        (/\ C8_LabelOnlyHeading(Trim(lines[j]))
         /\ \A m \in (j + 1)..(k - 1) : Trim(lines[m]) = <<>>
         /\ Trim(lines[k]) # <<>>
         /\ \A m \in k..i : ~IsBoundary(Trim(lines[m])))
            => title = Trim(lines[k])

-----------------------------------------------------------------------------
(* C9 *)

\* the ways to read t, from position p on, as a bold-wrapped word, a
\* separator and a meaning: <<e, g>> with ** at p, the word up to e - 1, ** at
\* e, separators up to g - 1 and the meaning from g to the end of the line
C9_Readings(t, p) ==
    {r \in ((p + 3)..Len(t)) \X ((p + 6)..Len(t)) :
        /\ OccursAt(t, <<"*", "*">>, p)
        /\ OccursAt(t, <<"*", "*">>, r[1])
        /\ r[2] > r[1] + 2
        /\ \A j \in (r[1] + 2)..(r[2] - 1) : t[j] \in LabelSep}

\* the entry a reading gives
C9_Entry(t, p, r) ==
    [word    |-> Trim(Sub(t, p + 2, r[1] - 1)),
     meaning |-> Trim(Sub(t, r[2], Len(t)))]

\* where the bold-wrapped word of a line with a bullet starts; 0 without a bullet
C9_AfterBullet(t) ==
    IF Len(t) >= 1 /\ t[1] \in {"*", "-"} THEN SkipWhile(t, 2, WhiteSpace) ELSE 0

\* the entries a step may append for the line t read from p on
C9_AppendsEntry(t, p) ==
    /\ \E r \in C9_Readings(t, p) : vocabItems' = Append(vocabItems, C9_Entry(t, p, r))
    /\ UNCHANGED <<title, englishBody, translationText, currentSection>>

\* C9 as stated: in the vocabulary section a line made of a bold-wrapped
\* word, a separator and a meaning appends exactly one entry, with or without
\* a bullet; every other line changes nothing.
C9_EntryWithOrWithoutBullet ==
    [][(Scanned /\ currentSection = "vocab") =>
          LET t == ScannedTrimmed
              b == C9_AfterBullet(t)
          IN  IF b # 0 /\ C9_Readings(t, b) # {}
              THEN C9_AppendsEntry(t, b)
              ELSE IF C9_Readings(t, 1) # {}
              THEN C9_AppendsEntry(t, 1)
              ELSE UNCHANGED <<title, englishBody, vocabItems, translationText,
                               currentSection>>]_vars

\* C9 as amended: in the vocabulary section a line made of a bullet, a
\* bold-wrapped word, a separator and a meaning appends exactly one entry;
\* every other line that is no section boundary, a line without the bullet
\* included, changes nothing.
C9_EntryNeedsBullet ==
    [][(Scanned /\ currentSection = "vocab" /\ ~IsBoundary(ScannedTrimmed)) =>
          LET t == ScannedTrimmed
              b == C9_AfterBullet(t)
          IN  IF b # 0 /\ C9_Readings(t, b) # {}
              THEN C9_AppendsEntry(t, b)
              ELSE UNCHANGED <<title, englishBody, vocabItems, translationText,
                               currentSection>>]_vars

\* a line with a - bullet appended its entry, and the same kind of line
\* without a bullet, scanned next, appended nothing
C9_Witness ==
    /\ i >= 3
    /\ currentSection = "vocab"
    /\ lines[i - 1] = LineEntryDash
    /\ lines[i] = LineEntryBare
    /\ vocabItems = <<[word |-> <<"v">>, meaning |-> <<"n">>]>>

-----------------------------------------------------------------------------
(* C10 *)

\* the number of # characters t starts with
C10_Hashes(t) == SkipWhile(t, 1, {"#"}) - 1

\* t starts with the heading marker of two or three # characters
C10_LooksLikeHeading(t) == C10_Hashes(t) \in {2, 3}

\* t starts with the heading marker and white space after it
C10_MarkerThenSpace(t) ==
    /\ C10_LooksLikeHeading(t)
    /\ Len(t) > C10_Hashes(t)
    /\ t[C10_Hashes(t) + 1] \in WhiteSpace

\* C10 as stated: in the translation section every line that starts with the
\* heading marker leaves the cursor in the translation section and is emitted
\* as a bold sub-title and a paragraph break; every other line is appended as
\* it is with a line terminator.
C10_EveryHeadingIsSubTitle ==
    [][(Scanned /\ currentSection = "translation") =>
          LET line == lines[i + 1]
              t    == ScannedTrimmed
          IN  IF C10_LooksLikeHeading(t)
              THEN /\ currentSection' = "translation"
                   /\ \E a \in 1..Len(t) : \E b \in a..Len(t) :
                         translationText' = translationText \o BoldParagraph(Sub(t, a, b))
              ELSE translationText' = translationText \o line \o <<NL>>]_vars

\* C10 as amended: in the translation section a line that is no section
\* boundary leaves the cursor in the translation section; when it starts with
\* the heading marker and white space it is not appended as it is: its
\* content, with the marker and the katakana label removed, is emitted as a
\* bold sub-title and a paragraph break when it is not empty, and nothing is
\* emitted when it is empty; every other such line is appended as it is with
\* a line terminator.
C10_SubTitleOfMarkedLines ==
    [][(Scanned /\ currentSection = "translation" /\ ~IsBoundary(ScannedTrimmed)) =>
          LET line == lines[i + 1]
              t    == ScannedTrimmed
          IN  /\ currentSection' = "translation"
              /\ UNCHANGED <<title, englishBody, vocabItems>>
              /\ IF C10_MarkerThenSpace(t)
                 THEN IF SubTitle(t) # <<>>
                      THEN translationText' = translationText \o BoldParagraph(SubTitle(t))
                      ELSE translationText' = translationText
                 ELSE translationText' = translationText \o line \o <<NL>>]_vars

\* a sub-heading scanned in the translation section was emitted in bold, with
\* its marker and label removed, after a line appended as it is
C10_Witness ==
    /\ i >= 3
    /\ currentSection = "translation"
    /\ lines[i - 1] = LineText
    /\ lines[i] = LineSubHead
    /\ translationText = LineText \o <<NL>> \o BoldParagraph(<<"x">>)

-----------------------------------------------------------------------------
(* C2 *)

\* the lines of ls that start with the heading marker
C2_HeadingLines(ls) ==
    {k \in 1..Len(ls) : OccursAt(Trim(ls[k]), <<"#", "#">>, 1)}

\* the inline title of the content c of a section-1 heading: what follows the
\* label when the content starts with the label, the content when it does not
C2_InlineTitle(c) ==
    IF C7_HasLabel(c) THEN C7_AfterLabel(c) ELSE c

\* ls is a well-formed four-section template with the headings at h[1..4]:
\* its heading lines are exactly four, numbered 1, 2, 3, 4 in that order, the
\* title is inline and the body is not empty
C2_WellFormedAt(ls, h) ==
    /\ h[1] < h[2] /\ h[2] < h[3] /\ h[3] < h[4]
    /\ C2_HeadingLines(ls) = {h[1], h[2], h[3], h[4]}
    /\ \A n \in 1..4 : IsHeadingNumbered(Trim(ls[h[n]]), n)
    /\ C2_InlineTitle(Trim(HeaderMatch(Trim(ls[h[1]])).content)) # <<>>
    /\ Trim(LinesText(ls, h[2] + 1, h[3] - 1)) # <<>>

\* the entries of the matching vocabulary lines among the lines a..b, in order
RECURSIVE C2_EntriesOf(_, _, _)
C2_EntriesOf(ls, a, b) ==
    IF a > b THEN <<>>
    ELSE LET t == Trim(ls[a])
             p == C9_AfterBullet(t)
         IN  (IF p # 0 /\ C9_Readings(t, p) # {}
              THEN <<[word    |-> Trim(VocabMatch(t).word),
                      meaning |-> Trim(VocabMatch(t).meaning)]>>
              ELSE <<>>) \o C2_EntriesOf(ls, a + 1, b)

\* the record C2 describes, but for its title
C2_RestAsDescribed(ls, h) ==
    /\ result.kind = "record"
    /\ result.english = Trim(LinesText(ls, h[2] + 1, h[3] - 1))
    /\ result.translation = Trim(LinesText(ls, h[4] + 1, Len(ls)))
    /\ result.vocab = C2_EntriesOf(ls, h[3] + 1, h[4] - 1)

\* C2: for a well-formed four-section template the record has the inline
\* title, the lines between headings 2 and 3 as the body, the lines after
\* heading 4 as the translation (both trimmed) and the matching vocabulary
\* lines, in order and with duplicates, as the vocabulary.
C2_WellFormedTemplateParsed ==
    pc = "done" =>
        \A h \in [1..4 -> 1..Len(lines)] :
            C2_WellFormedAt(lines, h) =>
                /\ C2_RestAsDescribed(lines, h)
                /\ result.title =
                      C2_InlineTitle(Trim(HeaderMatch(Trim(lines[h[1]])).content))

\* the part of C2 that is not about the title
C2_BodyVocabTranslation ==
    pc = "done" =>
        \A h \in [1..4 -> 1..Len(lines)] :
            C2_WellFormedAt(lines, h) => C2_RestAsDescribed(lines, h)

-----------------------------------------------------------------------------
(* markdownToHtml (lines 169-186).                                         *)

\* the tags the replacements of markdownToHtml write
TagStrong      == <<"<", "s", "t", "r", "o", "n", "g", ">">>
TagStrongClose == <<"<", "/", "s", "t", "r", "o", "n", "g", ">">>
TagEm          == <<"<", "e", "m", ">">>
TagEmClose     == <<"<", "/", "e", "m", ">">>
TagP           == <<"<", "p", ">">>
TagPClose      == <<"<", "/", "p", ">">>
TagBr          == <<"<", "b", "r", ">">>

\* line 174, the lazy group of /\*\*(.+?)\*\*/ opened by the "**" at p: the
\* least e at which "**" closes a non-empty group of `.' characters that
\* starts at p + 2; 0 when the group meets a line terminator or the end first
RECURSIVE BoldClose(_, _, _)
BoldClose(s, p, e) ==
    IF e + 1 > Len(s) \/ ~IsDot(s[e - 1]) THEN 0
    ELSE IF s[e] = "*" /\ s[e + 1] = "*" THEN e
    ELSE BoldClose(s, p, e + 1)

\* line 174: .replace(/\*\*(.+?)\*\*/g, '<strong>$1</strong>'), from p on
RECURSIVE BoldFrom(_, _)
BoldFrom(s, p) ==
    IF p > Len(s) THEN <<>>
    ELSE LET e == IF OccursAt(s, <<"*", "*">>, p) THEN BoldClose(s, p, p + 3) ELSE 0
         IN  IF e # 0
             THEN TagStrong \o Sub(s, p + 2, e - 1) \o TagStrongClose \o BoldFrom(s, e + 2)
             ELSE <<s[p]>> \o BoldFrom(s, p + 1)

Bold(s) == BoldFrom(s, 1)

\* line 175, the group of /(?<!\*)\*([^*]+?)\*(?!\*)/ opened by the "*" at p:
\* the group cannot hold a "*", so it ends at the first "*" after p; that "*"
\* closes the match when the group is not empty and no "*" follows; else 0
ItalicClose(s, p) ==
    LET e == SkipWhile(s, p + 1, {c \in {s[k] : k \in 1..Len(s)} : c # "*"})
    IN  IF /\ e <= Len(s)
           /\ e >= p + 2
           /\ ~(e + 1 <= Len(s) /\ s[e + 1] = "*")
        THEN e ELSE 0

\* line 175: .replace(/(?<!\*)\*([^*]+?)\*(?!\*)/g, '<em>$1</em>'), from p on
RECURSIVE ItalicFrom(_, _)
ItalicFrom(s, p) ==
    IF p > Len(s) THEN <<>>
    ELSE LET e == IF s[p] = "*" /\ ~(p > 1 /\ s[p - 1] = "*")
                  THEN ItalicClose(s, p) ELSE 0
         IN  IF e # 0
             THEN TagEm \o Sub(s, p + 1, e - 1) \o TagEmClose \o ItalicFrom(s, e + 1)
             ELSE <<s[p]>> \o ItalicFrom(s, p + 1)

Italic(s) == ItalicFrom(s, 1)

\* line 178: .split(/\n{2,}/), from p on with the piece cur begun
RECURSIVE SplitParasFrom(_, _, _)
SplitParasFrom(s, p, cur) ==
    IF p > Len(s) THEN <<cur>>
    ELSE IF s[p] = NL /\ p + 1 <= Len(s) /\ s[p + 1] = NL
         THEN <<cur>> \o SplitParasFrom(s, SkipWhile(s, p, {NL}), <<>>)
         ELSE SplitParasFrom(s, p + 1, Append(cur, s[p]))

SplitParas(s) == SplitParasFrom(s, 1, <<>>)

\* lines 178-180: split, wrap each trimmed piece in <p>, join with '\n'
Paragraphs(s) ==
    LET paras == SplitParas(s)
    IN  JoinLines([k \in 1..Len(paras) |-> TagP \o Trim(paras[k]) \o TagPClose])

\* line 183: html.replace(/(?<!<\/p>)\n(?!<p>)/g, '<br>'), from p on
RECURSIVE BreaksFrom(_, _)
BreaksFrom(s, p) ==
    IF p > Len(s) THEN <<>>
    ELSE IF /\ s[p] = NL
            /\ ~OccursAt(s, TagPClose, p - Len(TagPClose))
            /\ ~OccursAt(s, TagP, p + 1)
         THEN TagBr \o BreaksFrom(s, p + 1)
         ELSE <<s[p]>> \o BreaksFrom(s, p + 1)

Breaks(s) == BreaksFrom(s, 1)

\* markdownToHtml(text)
MarkdownToHtml(s) ==
    IF s = <<>> THEN <<>> ELSE Breaks(Paragraphs(Italic(Bold(s))))

-----------------------------------------------------------------------------
(* The texts markdownToHtml is called with.                                *)

\* the greatest number of pieces of a text
MaxPieces == 4

\* the pieces of a text
PieceSet ==
    {<<"a">>, <<" ">>, <<"*">>, <<"*", "*">>, <<NL>>, <<"<">>, TagPClose}

\* the concatenation of the pieces ps
RECURSIVE Concat(_)
Concat(ps) == IF ps = <<>> THEN <<>> ELSE ps[1] \o Concat(Tail(ps))

MdTexts == {Concat(ps) : ps \in SeqsOf(PieceSet, 0, MaxPieces)}

-----------------------------------------------------------------------------
(* markdownToHtml as a state machine: one step for each call of its chain. *)

InitMd ==
    /\ mdText \in MdTexts
    /\ html = <<>>
    /\ mdPc = "start"
    /\ ParserIdle
    /\ AppIdle

\* line 170: if (!text) return ''
MdEmpty ==
    /\ mdPc = "start"
    /\ mdText = <<>>
    /\ html' = <<>>
    /\ mdPc' = "done"
    /\ UNCHANGED <<mdText, vars, appVars>>

\* lines 172-174: let html = text.replace(bold)
MdBold ==
    /\ mdPc = "start"
    /\ mdText # <<>>
    /\ html' = Bold(mdText)
    /\ mdPc' = "italic"
    /\ UNCHANGED <<mdText, vars, appVars>>

\* line 175: .replace(italic)
MdItalic ==
    /\ mdPc = "italic"
    /\ html' = Italic(html)
    /\ mdPc' = "split"
    /\ UNCHANGED <<mdText, vars, appVars>>

\* lines 178-180: html = html.split(...).map(...).join('\n')
MdParagraphs ==
    /\ mdPc = "split"
    /\ html' = Paragraphs(html)
    /\ mdPc' = "breaks"
    /\ UNCHANGED <<mdText, vars, appVars>>

\* lines 183-185: html = html.replace(single newline); return html
MdBreaks ==
    /\ mdPc = "breaks"
    /\ html' = Breaks(html)
    /\ mdPc' = "done"
    /\ UNCHANGED <<mdText, vars, appVars>>

NextMd == MdEmpty \/ MdBold \/ MdItalic \/ MdParagraphs \/ MdBreaks

SpecMd == InitMd /\ [][NextMd]_mdVars

-----------------------------------------------------------------------------
(* Vocabulary of the properties of markdownToHtml.                         *)

\* markdownToHtml has returned
MdDone == mdPc = "done"

\* the number of positions of s at which w occurs
CountOf(s, w) == Cardinality({p \in 1..Len(s) : OccursAt(s, w, p)})

\* the tags markdownToHtml generates
RendererTags ==
    {TagP, TagPClose, TagBr, TagStrong, TagStrongClose, TagEm, TagEmClose}

\* the escaped forms of the markup-significant characters
EscapedLt  == <<"&", "l", "t", ";">>
EscapedGt  == <<"&", "g", "t", ";">>
EscapedAmp == <<"&", "a", "m", "p", ";">>

\* C11: the output of markdownToHtml holds no markup that comes from the text:
\* every "<" of the output opens one of the tags the renderer generates, every
\* ">" closes one, and every "<", ">" and "&" of the text is in the output in
\* its escaped form.
C11_MarkupEscaped ==
    MdDone =>
        /\ \A p \in 1..Len(html) :
              /\ html[p] = "<" => \E t \in RendererTags : OccursAt(html, t, p)
              /\ html[p] = ">" => \E t \in RendererTags : OccursAt(html, t, p - Len(t) + 1)
        /\ CountOf(html, EscapedLt) >= CountOf(mdText, <<"<">>)
        /\ CountOf(html, EscapedGt) >= CountOf(mdText, <<">">>)
        /\ CountOf(html, EscapedAmp) >= CountOf(mdText, <<"&">>)

\* the blocks of s: the pieces between its runs of two or more line terminators
RECURSIVE C12_Blocks(_)
C12_Blocks(s) ==
    LET seps == {p \in 1..Len(s) - 1 : s[p] = NL /\ s[p + 1] = NL}
    IN  IF seps = {} THEN <<s>>
        ELSE LET p == CHOOSE q \in seps : \A r \in seps : q <= r
                 e == CHOOSE q \in p..Len(s) :
                          /\ \A r \in p..q : s[r] = NL
                          /\ q = Len(s) \/ s[q + 1] # NL
             IN  <<Sub(s, 1, p - 1)>> \o C12_Blocks(Sub(s, e + 1, Len(s)))

\* b with every line terminator replaced by a line-break marker
RECURSIVE C12_BreakAll(_)
C12_BreakAll(b) ==
    IF b = <<>> THEN <<>>
    ELSE (IF b[1] = NL THEN TagBr ELSE <<b[1]>>) \o C12_BreakAll(Tail(b))

\* the paragraph containers of the blocks bs, a line terminator between them
RECURSIVE C12_Containers(_)
C12_Containers(bs) ==
    LET first == TagP \o C12_BreakAll(Trim(bs[1])) \o TagPClose
    IN  IF Len(bs) = 1 THEN first
        ELSE first \o <<NL>> \o C12_Containers(Tail(bs))

\* C12: for a non-empty text the output is one paragraph container per block
\* of the text, in order, each block trimmed, every line terminator inside a
\* block a line-break marker, and the line terminator between two containers
\* left as it is.  (The blocks are taken after the emphasis substitutions,
\* which neither add nor remove a line terminator.)
C12_ParagraphPerBlock ==
    (MdDone /\ mdText # <<>>) =>
        /\ Len(C12_Blocks(Italic(Bold(mdText)))) = Len(C12_Blocks(mdText))
        /\ html = C12_Containers(C12_Blocks(Italic(Bold(mdText))))

\* the same, for the texts that hold no "<": it is the unescaped markup of
\* C11 that the line-break pattern of line 183 mistakes for its own tags
C12_ParagraphPerBlockOfPlainText ==
    (MdDone /\ CountOf(mdText, <<"<">>) = 0) => C12_ParagraphPerBlock

-----------------------------------------------------------------------------
(* The page: the story collection, the reader position, the views, the      *)
(* bottom sheets and the file reads (lines 7-31, 240-583).                  *)
(*                                                                          *)
(* The rendered DOM content, the reader menu, the theme and the toasts are  *)
(* written by the handlers and read by none of them; they are left out.     *)
(* A click is possible on the view that is active: each handler is guarded  *)
(* by the view its element belongs to.                                      *)

\* the greatest number of ids generateId hands out
MaxClock == 3

\* the greatest number of pending hide timers
MaxTimers == 2

\* the greatest number of file reads in flight
MaxReads == 1

\* the .bottom-sheet elements the tab buttons name (line 402)
Sheets == {"sheet-vocab", "sheet-translation"}

\* parseTemplate(text), the whole call: the loop over the lines from k on
RECURSIVE ScanFrom(_, _, _)
ScanFrom(ls, k, st) ==
    IF k > Len(ls) THEN st ELSE ScanFrom(ls, k + 1, ScanStep(st, ls[k]))

ParseTemplate(t) ==
    ReturnValue(ScanFrom(SplitLines(t), 1,
        [title |-> <<>>, englishBody |-> <<>>, vocabItems |-> <<>>,
         translationText |-> <<>>, currentSection |-> "null"]))

\* the texts the user submits: a whole template, one with a body and no
\* title, one with a title and no body, and white space only
TplWhole   == JoinLines(<<LineTitleLabel, LineBodyHead, LineText, LineVocabHead,
                          LineEntryStar, LineTransHead, LineTextB>>)
TplNoTitle == JoinLines(<<LineBodyHead, LineText>>)
TplNoBody  == JoinLines(<<LineTitleLabel, LineBlank>>)
TplBlank   == <<" ", NL>>

SubmitInputs == {TplWhole, TplNoTitle, TplNoBody, TplBlank}

\* lines 474-477: parseTemplate($('story-input').value.trim()), for each text
Parsed == [input \in SubmitInputs |-> ParseTemplate(Trim(input))]

\* the files the user picks for the import, as JSON.parse reads them: one
\* that is not JSON or has no stories array (lines 558-559, 567-572), a
\* collection of one story with one chapter, and one whose story has no
\* chapter.  The ids of a file are ids generateId does not hand out again.
FileNotBackup == [kind |-> "not-backup"]
FileOneStory ==
    [kind |-> "backup",
     stories |-> << [id |-> MaxClock + 1, title |-> <<"B">>,
                     chapters |-> << [id |-> MaxClock + 2, english |-> <<"c">>,
                                      vocab |-> <<>>, translation |-> <<>>,
                                      addedAt |-> 0] >>,
                     createdAt |-> 0, updatedAt |-> 0] >>]
FileNoChapter ==
    [kind |-> "backup",
     stories |-> << [id |-> MaxClock + 3, title |-> <<"B">>, chapters |-> <<>>,
                     createdAt |-> 0, updatedAt |-> 0] >>]

ImportFiles == {FileNotBackup, FileOneStory, FileNoChapter}

\* stories.find(s => s.id === id): the index of the first such story, 0 if none
Find(ss, id) ==
    LET ks == {k \in 1..Len(ss) : ss[k].id = id}
    IN  IF ks = {} THEN 0 ELSE CHOOSE k \in ks : \A j \in ks : k <= j

\* a filter that keeps no story
WithoutAll(ss, id) == <<>>

\* stories.filter(s => s.id !== id)
RECURSIVE Without(_, _)
Without(ss, id) ==
    IF ss = <<>> THEN <<>>
    ELSE (IF ss[1].id = id THEN <<>> ELSE <<ss[1]>>) \o Without(Tail(ss), id)

\* line 14: JSON.stringify(stories), the item written.  A story holds
\* strings, numbers, arrays and objects of these, which JSON.parse gives back
\* as they were.
Stringify(ss) == [json |-> ss]

\* line 7: JSON.parse(localStorage.getItem('storyReader_stories')) || []
LoadStories(item) == IF item = NoItem THEN <<>> ELSE item.json

\* a handler that ends without the write
SaveStateSkipped ==
    UNCHANGED stored

\* lines 13-15: saveState, after the assignments of the handler
SaveState ==
    stored' = Stringify(stories')

\* lines 392-397: closeAllSheets
CloseAllSheets ==
    /\ hideTimers < MaxTimers
    /\ openSheets' = {}
    /\ overlay' = overlay \ {"visible"}
    /\ hideTimers' = hideTimers + 1

\* lines 21-31: navigateTo(viewId)
NavigateTo(viewId) ==
    /\ activeView' = viewId
    /\ CloseAllSheets

\* lines 243-252: openReader(storyId), called when the collection is ss and
\* currentChapterIndex is idx
OpenReader(storyId, ss, idx) ==
    IF Find(ss, storyId) = 0
    THEN /\ currentChapterIndex' = idx
         /\ UNCHANGED <<currentStoryId, activeView, openSheets, overlay, hideTimers>>
    ELSE /\ currentStoryId' = storyId
         /\ currentChapterIndex' = 0
         /\ NavigateTo("view-reader")

\* the page has loaded, on a store that was never written or that holds the
\* empty collection: lines 7-8, 240-241, 609-610
InitApp ==
    /\ stored \in {NoItem, Stringify(<<>>)}
    /\ stories = LoadStories(stored)
    /\ addingToStoryId = NoId
    /\ currentStoryId = NoId
    /\ currentChapterIndex = 0
    /\ activeView = "view-list"
    /\ openSheets = {}
    /\ overlay = {"hidden"}
    /\ hideTimers = 0
    /\ reads = <<>>
    /\ clock = 0
    /\ ParserIdle
    /\ MdIdle

\* lines 222-226: a click on the card of story id
CardClick(id) ==
    /\ activeView = "view-list"
    /\ OpenReader(id, stories, currentChapterIndex)
    /\ UNCHANGED <<stories, stored, addingToStoryId, reads, clock>>
    /\ UNCHANGED <<vars, mdVars>>

\* lines 311-316: prev-chapter
PrevChapter ==
    /\ activeView = "view-reader"
    /\ currentChapterIndex' =
          IF currentChapterIndex > 0 THEN currentChapterIndex - 1
          ELSE currentChapterIndex
    /\ UNCHANGED <<stories, stored, currentStoryId, addingToStoryId, activeView,
                   openSheets, overlay, hideTimers, reads, clock>>
    /\ UNCHANGED <<vars, mdVars>>

\* lines 318-324: next-chapter
NextChapter ==
    /\ activeView = "view-reader"
    /\ LET k == Find(stories, currentStoryId)
       IN  currentChapterIndex' =
              IF k # 0 /\ currentChapterIndex < Len(stories[k].chapters) - 1
              THEN currentChapterIndex + 1
              ELSE currentChapterIndex
    /\ UNCHANGED <<stories, stored, currentStoryId, addingToStoryId, activeView,
                   openSheets, overlay, hideTimers, reads, clock>>
    /\ UNCHANGED <<vars, mdVars>>

\* lines 327-330: back-btn of the reader
ReaderBack ==
    /\ activeView = "view-reader"
    /\ NavigateTo("view-list")
    /\ UNCHANGED <<stories, stored, currentStoryId, currentChapterIndex,
                   addingToStoryId, reads, clock>>
    /\ UNCHANGED <<vars, mdVars>>

\* lines 349-352, 442-457: add-chapter-btn, openAddView(currentStoryId)
AddChapterClick ==
    /\ activeView = "view-reader"
    /\ addingToStoryId' = currentStoryId
    /\ NavigateTo("view-add")
    /\ UNCHANGED <<stories, stored, currentStoryId, currentChapterIndex, reads, clock>>
    /\ UNCHANGED <<vars, mdVars>>

\* lines 355-364: delete-story-btn, the confirm dialog answered ok or not
DeleteStory(ok) ==
    /\ activeView = "view-reader"
    /\ IF ok
       THEN /\ stories' = Without(stories, currentStoryId)
            /\ SaveState
            /\ NavigateTo("view-list")
       ELSE UNCHANGED <<stories, stored, activeView, openSheets, overlay, hideTimers>>
    /\ UNCHANGED <<currentStoryId, currentChapterIndex, addingToStoryId, reads, clock>>
    /\ UNCHANGED <<vars, mdVars>>

\* lines 460, 442-457: add-story-fab, openAddView()
FabClick ==
    /\ activeView = "view-list"
    /\ addingToStoryId' = NoId
    /\ NavigateTo("view-add")
    /\ UNCHANGED <<stories, stored, currentStoryId, currentChapterIndex, reads, clock>>
    /\ UNCHANGED <<vars, mdVars>>

\* lines 463-469: add-back-btn
AddBack ==
    /\ activeView = "view-add"
    /\ IF addingToStoryId # NoId
       THEN OpenReader(addingToStoryId, stories, currentChapterIndex)
       ELSE /\ NavigateTo("view-list")
            /\ UNCHANGED <<currentStoryId, currentChapterIndex>>
    /\ UNCHANGED <<stories, stored, addingToStoryId, reads, clock>>
    /\ UNCHANGED <<vars, mdVars>>

\* lines 483-489: the chapter built from the parsed template, with id and stamp n
NewChapter(parsed, n) ==
    [id |-> n, english |-> parsed.english, vocab |-> parsed.vocab,
     translation |-> parsed.translation, addedAt |-> n]

\* a submit that answers a rejected template by leaving the add view
RejectSubmitLeavesView ==
    /\ NavigateTo("view-list")
    /\ UNCHANGED <<stories, stored, currentStoryId, currentChapterIndex,
                   addingToStoryId, reads, clock>>

\* lines 475, 478-481: if (!input) return; if (!parsed) { alert(...); return; }
RejectSubmit ==
    UNCHANGED appVars

\* a push that puts the chapter first
PushChapterFirst(ss, k, chapter, now) ==
    [ss EXCEPT ![k].chapters = <<chapter>> \o @, ![k].updatedAt = now]

\* lines 495-496: story.chapters.push(chapter); story.updatedAt = Date.now()
PushChapter(ss, k, chapter, now) ==
    [ss EXCEPT ![k].chapters = Append(@, chapter), ![k].updatedAt = now]

\* lines 472-513: the collection the submit of the text input leaves
SubmittedStories(input) ==
    LET trimmed == Trim(input)
        parsed  == Parsed[input]
        chapter == NewChapter(parsed, clock + 1)
        k       == Find(stories, addingToStoryId)
    IN  IF trimmed = <<>> \/ parsed = Null THEN stories
        ELSE IF addingToStoryId # NoId
        THEN IF k # 0 THEN PushChapter(stories, k, chapter, clock + 1) ELSE stories
        ELSE Append(stories,
                [id |-> clock + 2, title |-> parsed.title, chapters |-> <<chapter>>,
                 createdAt |-> clock + 2, updatedAt |-> clock + 2])

\* lines 472-517: submit-story-btn with the text input in the form
Submit(input) ==
    /\ activeView = "view-add"
    /\ LET trimmed == Trim(input)
           k       == Find(stories, addingToStoryId)
       IN  IF trimmed = <<>> \/ Parsed[input] = Null
           THEN RejectSubmit
           ELSE IF addingToStoryId # NoId
           THEN /\ clock + 1 <= MaxClock
                /\ clock' = clock + 1
                /\ IF k # 0
                   THEN /\ stories' = SubmittedStories(input)
                        /\ SaveState
                        /\ OpenReader(addingToStoryId, stories',
                                      Len(stories'[k].chapters) - 1)
                   ELSE UNCHANGED <<stories, stored, currentStoryId, currentChapterIndex,
                                    activeView, openSheets, overlay, hideTimers>>
                /\ UNCHANGED <<addingToStoryId, reads>>
           ELSE /\ clock + 2 <= MaxClock
                /\ clock' = clock + 2
                /\ stories' = SubmittedStories(input)
                /\ SaveState
                /\ OpenReader(clock + 2, stories', currentChapterIndex)
                /\ UNCHANGED <<addingToStoryId, reads>>
    /\ UNCHANGED <<vars, mdVars>>

\* line 523: settings-btn
SettingsClick ==
    /\ activeView = "view-list"
    /\ NavigateTo("view-settings")
    /\ UNCHANGED <<stories, stored, currentStoryId, currentChapterIndex,
                   addingToStoryId, reads, clock>>
    /\ UNCHANGED <<vars, mdVars>>

\* lines 524-527: settings-back-btn
SettingsBack ==
    /\ activeView = "view-settings"
    /\ NavigateTo("view-list")
    /\ UNCHANGED <<stories, stored, currentStoryId, currentChapterIndex,
                   addingToStoryId, reads, clock>>
    /\ UNCHANGED <<vars, mdVars>>

\* lines 547-555, 574: backup-import-btn with the file picked; the read starts
ImportClick(file) ==
    /\ activeView = "view-settings"
    /\ Len(reads) < MaxReads
    /\ reads' = Append(reads, file)
    /\ UNCHANGED <<stories, stored, currentStoryId, currentChapterIndex,
                   addingToStoryId, activeView, openSheets, overlay, hideTimers, clock>>
    /\ UNCHANGED <<vars, mdVars>>

\* lines 549-553: backup-import-btn with no file picked
ImportNoFile ==
    /\ activeView = "view-settings"
    /\ UNCHANGED appVars
    /\ UNCHANGED <<vars, mdVars>>

\* lines 556-573: reader.onload of the read r, the confirm dialog answered ok or not
ImportLoad(r, ok) ==
    /\ r \in 1..Len(reads)
    /\ reads' = [j \in 1..Len(reads) - 1 |-> IF j < r THEN reads[j] ELSE reads[j + 1]]
    /\ IF reads[r].kind = "backup" /\ ok
       THEN /\ stories' = reads[r].stories
            /\ SaveState
            /\ NavigateTo("view-list")
       ELSE UNCHANGED <<stories, stored, activeView, openSheets, overlay, hideTimers>>
    /\ UNCHANGED <<currentStoryId, currentChapterIndex, addingToStoryId, clock>>
    /\ UNCHANGED <<vars, mdVars>>

\* lines 372-390: openSheet(sheetId)
OpenSheet(sheetId) ==
    /\ hideTimers < MaxTimers
    /\ hideTimers' = hideTimers + 1
    /\ overlay' = (overlay \ {"hidden"}) \cup {"visible"}
    /\ openSheets' = {sheetId}

\* lines 400-410: a click on the tab button of sheetId
TabClick(sheetId) ==
    /\ activeView = "view-reader"
    /\ IF sheetId \in openSheets THEN CloseAllSheets ELSE OpenSheet(sheetId)
    /\ UNCHANGED <<stories, stored, currentStoryId, currentChapterIndex,
                   addingToStoryId, activeView, reads, clock>>
    /\ UNCHANGED <<vars, mdVars>>

\* line 413: a click on the overlay, which is shown while it carries 'visible'
OverlayClick ==
    /\ "visible" \in overlay
    /\ CloseAllSheets
    /\ UNCHANGED <<stories, stored, currentStoryId, currentChapterIndex,
                   addingToStoryId, activeView, reads, clock>>
    /\ UNCHANGED <<vars, mdVars>>

\* lines 416-436: a click on the handle of an open sheet, or a swipe down on it
SheetDismiss(sheetId) ==
    /\ sheetId \in openSheets
    /\ CloseAllSheets
    /\ UNCHANGED <<stories, stored, currentStoryId, currentChapterIndex,
                   addingToStoryId, activeView, reads, clock>>
    /\ UNCHANGED <<vars, mdVars>>

\* line 395: a callback of setTimeout runs, 300 ms after closeAllSheets
HideTimer ==
    /\ hideTimers > 0
    /\ hideTimers' = hideTimers - 1
    /\ overlay' = overlay \cup {"hidden"}
    /\ UNCHANGED <<stories, stored, currentStoryId, currentChapterIndex,
                   addingToStoryId, activeView, openSheets, reads, clock>>
    /\ UNCHANGED <<vars, mdVars>>

NextApp ==
    \/ \E s \in 1..Len(stories) : CardClick(stories[s].id)
    \/ PrevChapter
    \/ NextChapter
    \/ ReaderBack
    \/ AddChapterClick
    \/ \E ok \in BOOLEAN : DeleteStory(ok)
    \/ FabClick
    \/ AddBack
    \/ \E input \in SubmitInputs : Submit(input)
    \/ SettingsClick
    \/ SettingsBack
    \/ \E file \in ImportFiles : ImportClick(file)
    \/ ImportNoFile
    \/ \E r \in 1..Len(reads), ok \in BOOLEAN : ImportLoad(r, ok)
    \/ \E sheetId \in Sheets : TabClick(sheetId)
    \/ OverlayClick
    \/ \E sheetId \in Sheets : SheetDismiss(sheetId)
    \/ HideTimer

\* every handler leaves parseTemplate and markdownToHtml at rest
SpecApp == InitApp /\ [][NextApp]_appVars

-----------------------------------------------------------------------------
(* Properties of the story collection and of the reader.                   *)

\* the story with id `id' in the collection ss (there is one)
StoryOf(ss, id) == ss[Find(ss, id)]

\* the handler of submit-story-btn accepts the text: it is not blank and
\* parseTemplate returns a record for it
Accepted(input) == Parsed[input] # Null

\* the text has a body that is not empty, whatever its title
HasBody(input) ==
    Trim(ScanFrom(SplitLines(Trim(input)), 1,
        [title |-> <<>>, englishBody |-> <<>>, vocabItems |-> <<>>,
         translationText |-> <<>>, currentSection |-> "null"]).englishBody) # <<>>

\* C13: every story of the collection has at least one chapter, after any
\* sequence of submits, deletions and backup imports.
C13_EveryStoryHasChapter ==
    \A k \in 1..Len(stories) : Len(stories[k].chapters) >= 1

\* the same for the stories the submit handler created (a file holds none of
\* their ids): it is the import alone that brings a story without chapters
C13_CreatedStoryHasChapter ==
    \A k \in 1..Len(stories) :
        stories[k].id <= MaxClock => Len(stories[k].chapters) >= 1

C15_TitleOptionalForChapter ==
    (/\ activeView = "view-add"
     /\ addingToStoryId # NoId
     /\ Find(stories, addingToStoryId) # 0) =>
        \A input \in SubmitInputs :
            HasBody(input) =>
                Len(StoryOf(SubmittedStories(input), addingToStoryId).chapters)
                   = Len(StoryOf(stories, addingToStoryId).chapters) + 1

\* the same for the templates that have a title as well: these are appended
C15_TitledChapterAppended ==
    (/\ activeView = "view-add"
     /\ addingToStoryId # NoId
     /\ Find(stories, addingToStoryId) # 0) =>
        \A input \in SubmitInputs :
            Accepted(input) =>
                Len(StoryOf(SubmittedStories(input), addingToStoryId).chapters)
                   = Len(StoryOf(stories, addingToStoryId).chapters) + 1

\* C16: a confirmed deletion removes exactly the story open in the reader, with
\* its chapters, and leaves every other story as it was, in the collection and
\* in the store; a declined one leaves the collection and the store unchanged.
C16_DeletesOpenStoryOnly ==
    [][\A ok \in BOOLEAN :
          DeleteStory(ok) =>
              IF ok
              THEN \E k \in 1..Len(stories) :
                      /\ stories[k].id = currentStoryId
                      /\ stories' = SubSeq(stories, 1, k - 1)
                                       \o SubSeq(stories, k + 1, Len(stories))
                      /\ LoadStories(stored') = stories'
              ELSE stories' = stories /\ stored' = stored
      ]_appVars

\* the open story was deleted and another story is left
C16_Witness ==
    /\ activeView = "view-list"
    /\ currentStoryId # NoId
    /\ currentStoryId <= MaxClock
    /\ Find(stories, currentStoryId) = 0
    /\ Len(stories) = 1
    /\ LoadStories(stored) = stories

\* C17: when the submit handler has added a chapter to an existing story, the
\* reader is open on that story at the chapter just added, the last one.
C17_ReaderOnNewChapter ==
    [][\A input \in SubmitInputs :
          (Submit(input) /\ addingToStoryId # NoId /\ stories' # stories) =>
              /\ activeView' = "view-reader"
              /\ currentStoryId' = addingToStoryId
              /\ currentChapterIndex'
                    = Len(StoryOf(stories', addingToStoryId).chapters) - 1
      ]_appVars

\* C18: a submit whose template is rejected changes nothing: the collection,
\* the store, the reader position and the target of the add view are as
\* before and the add view is still the active view.
C18_RejectedSubmitChangesNothing ==
    [][\A input \in SubmitInputs :
          (Submit(input) /\ ~Accepted(input)) =>
              /\ UNCHANGED <<stories, stored, currentStoryId, currentChapterIndex,
                             addingToStoryId>>
              /\ activeView' = "view-add"
      ]_appVars

\* the add view is open on an existing story, where a rejected submit leaves it
C18_Witness ==
    /\ activeView = "view-add"
    /\ addingToStoryId # NoId
    /\ Find(stories, addingToStoryId) # 0
    /\ \E input \in SubmitInputs : ~Accepted(input) /\ HasBody(input)

\* C19: whenever the reader is the active view, currentStoryId names a story
\* of the collection and currentChapterIndex is an index of its chapters.
C19_ReaderPositionValid ==
    activeView = "view-reader" =>
        /\ Find(stories, currentStoryId) # 0
        /\ currentChapterIndex >= 0
        /\ currentChapterIndex < Len(StoryOf(stories, currentStoryId).chapters)

\* the same with the stories without chapters of C13 set aside: the story
\* exists, and the index is valid as soon as the story has a chapter
C19_ReaderPositionValidOrNoChapter ==
    activeView = "view-reader" =>
        /\ Find(stories, currentStoryId) # 0
        /\ currentChapterIndex >= 0
        /\ \/ StoryOf(stories, currentStoryId).chapters = <<>>
           \/ currentChapterIndex < Len(StoryOf(stories, currentStoryId).chapters)

\* C20: whenever a bottom sheet is open the overlay carries 'visible' and not
\* 'hidden', and at most one bottom sheet is open.
C20_OpenSheetHasOverlay ==
    openSheets # {} =>
        /\ "visible" \in overlay
        /\ "hidden" \notin overlay
        /\ Cardinality(openSheets) <= 1

-----------------------------------------------------------------------------
(* Properties of the persisted store.                                       *)

\* C21: after every handler the collection persisted under
\* 'storyReader_stories', as line 7 reads it, is the collection in memory:
\* every handler that changes the collection writes the whole of it before it
\* ends, and none writes anything else.
C21_StoreIsCollection ==
    LoadStories(stored) = stories

\* a new-story submit and an add-chapter submit have written the store
C21_Witness ==
    /\ stored # NoItem
    /\ LoadStories(stored) = stories
    /\ \E k \in 1..Len(stories) : Len(stories[k].chapters) >= 2

-----------------------------------------------------------------------------
(* Properties of the emphasis markup.                                       *)

\* the emphasis tags of s from p on are well nested, open the elements of
\* `open' (the innermost last): a closing tag closes the innermost open
\* element, and at the end no element is open
RECURSIVE C22_NestedFrom(_, _, _)
C22_NestedFrom(s, p, open) ==
    IF p > Len(s) THEN open = <<>>
    ELSE IF OccursAt(s, TagStrong, p) THEN C22_NestedFrom(s, p + 1, Append(open, "strong"))
    ELSE IF OccursAt(s, TagEm, p) THEN C22_NestedFrom(s, p + 1, Append(open, "em"))
    ELSE IF OccursAt(s, TagStrongClose, p)
         THEN /\ open # <<>>
              /\ open[Len(open)] = "strong"
              /\ C22_NestedFrom(s, p + 1, SubSeq(open, 1, Len(open) - 1))
    ELSE IF OccursAt(s, TagEmClose, p)
         THEN /\ open # <<>>
              /\ open[Len(open)] = "em"
              /\ C22_NestedFrom(s, p + 1, SubSeq(open, 1, Len(open) - 1))
    ELSE C22_NestedFrom(s, p + 1, open)

\* C22: for every text the emphasis markup of the output of markdownToHtml
\* is well nested: every strong or em element that is opened is closed, and
\* none is closed while an element opened inside it is still open.
C22_EmphasisWellNested ==
    MdDone => C22_NestedFrom(html, 1, <<>>)

=============================================================================
